---- MODULE Spec2Model ----
(***************************************************************************)
(* join_metaphlan2_tables.py: detection of the header layout of a          *)
(* MetaPhlAn2 table, loading of each table with pandas, the outer join of  *)
(* the loaded tables, the fill of missing cells and the write of the       *)
(* result.                                                                 *)
(*                                                                         *)
(* Text.  A line is the sequence of its tab-separated fields, already      *)
(* stripped; no field holds a blank, so str.split() of a line yields the   *)
(* same fields as pandas' tab separation.  An empty line is <<>>.          *)
(* Numbers are kept in tenths (10 is 1.0).                                 *)
(***************************************************************************)
EXTENDS Integers, Sequences, FiniteSets, TLC

\* Largest number of positional arguments (mpa_tables) of a run.
MaxFiles == 3

\* The missing value of pandas (a cell no table supplied); no abundance is negative.
NaN == -1

----------------------------------------------------------------------------
(* Text of the input files *)

\* The tokens of the universe that begin with the literal "#SampleID".
MarkerPrefixed == {"#SampleID", "#SampleIDs"}

\* The text pandas' float parser reads, as a number of tenths.
ParseFloat(tok) ==
    CASE tok = "0.0" -> 0
      [] tok = "1.0" -> 10
      [] tok = "2.0" -> 20
      [] tok = "3.0" -> 30
      [] tok = "4.0" -> 40
      [] OTHER -> NaN

\* The text the producing tool prints for an abundance.
FormatFloat(num) ==
    CASE num = 0 -> "0.0"
      [] num = 10 -> "1.0"
      [] num = 20 -> "2.0"
      [] num = 30 -> "3.0"
      [] num = 40 -> "4.0"

DB1 == <<"#mpa_v20_m200">>
DB2 == <<"#mpa_v30">>
CommandLine == <<"#metaphlan2.py", "--input_type", "fastq">>
ColumnHeader == <<"#clade_name", "relative_abundance">>
MarkerLine(sid) == <<"#SampleID", sid>>
DataLines(rows) == [i \in 1..Len(rows) |-> <<rows[i].taxon, FormatFloat(rows[i].value)>>]

\* An input file: its text (lines) and, for reference, what the text was
\* rendered from: the layout, the database line, the sample name and the
\* taxon rows.
File(layout, db, sid, rows, head) ==
    [layout |-> layout, db |-> db, sid |-> sid, rows |-> rows,
     lines |-> head \o DataLines(rows)]

\* Layout 1 of the tool: the "#SampleID <name>" line is the column header.
V1(sid, rows)  == File("v1", <<>>, sid, rows, <<MarkerLine(sid)>>)
\* The same with the header line written twice.
V1H(sid, rows) == File("v1h", <<>>, sid, rows, <<MarkerLine(sid), MarkerLine(sid)>>)
\* Layout 2: database line, "#SampleID <name>" line, column header.
V2(db, sid, rows) == File("v2", db, sid, rows, <<db, MarkerLine(sid), ColumnHeader>>)
\* Layout 3: database line, another line, "#SampleID <name>" line, column header.
V3(db, sid, rows) ==
    File("v3", db, sid, rows, <<db, CommandLine, MarkerLine(sid), ColumnHeader>>)
\* No "#SampleID" line among the first three lines.
NoMarker(db, sid, rows) ==
    File("none", db, sid, rows, <<db, CommandLine, CommandLine, MarkerLine(sid), ColumnHeader>>)
\* A "#SampleID" line that names no sample.
Bare(db, rows) == File("bare", db, "", rows, <<db, <<"#SampleID">>, ColumnHeader>>)

Row(taxon, value) == [taxon |-> taxon, value |-> value]
RowsA == <<Row("X", 10), Row("Y", 20)>>
RowsB == <<Row("Y", 30), Row("Z", 40)>>
RowsD == <<Row("X", 10), Row("X", 20)>>

\* The input files a run's arguments are drawn from.
FileUniverse ==
    { V2(DB1, "S1", RowsA), V2(DB1, "S2", RowsB), V2(DB2, "S2", RowsB),
      V3(DB1, "S2", RowsB), V3(DB1, "S3", RowsD), V3(DB2, "S3", RowsA),
      V1("S1", RowsA), V1H("S1", RowsA),
      NoMarker(DB1, "S1", RowsA), Bare(DB1, RowsA) }

\* The lines the first lines of a file are drawn from, for the detector alone.
LineUniverse ==
    { <<>>, DB1, ColumnHeader, MarkerLine("S1"), <<"#SampleID">>,
      <<"#SampleIDs", "S2", "extra">>, <<"X", "1.0">> }

RawFile(l1, l2, l3, l4, l5) == File("raw", <<>>, "", <<>>, <<l1, l2, l3, l4, l5>>)

----------------------------------------------------------------------------
(* get_sample_name_and_column_headers *)

\* f.readline().strip(): the k-th line, an empty line past the end of the file.
readline(mpa_table, k) ==
    IF k <= Len(mpa_table.lines) THEN mpa_table.lines[k] ELSE <<>>

\* line.startswith("#SampleID")
startswith(line) == line # <<>> /\ line[1] \in MarkerPrefixed

UnknownDatabase == <<"#Unknown", "database">>

Descriptor(sample_name, columns, db, variant) ==
    [kind |-> "ok", sample_id |-> sample_name, columns |-> columns,
     db |-> db, variant |-> variant]
Raised(exception) ==
    [kind |-> exception, sample_id |-> "", columns |-> <<>>, db |-> <<>>, variant |-> 0]

\* The detector with the column headers of layouts 2 and 3 read one line early.
detector_columns_one_line_early(mpa_table) ==
    LET first_line  == readline(mpa_table, 1)
        second_line == readline(mpa_table, 2)
        third_line  == readline(mpa_table, 3)
    IN  IF startswith(first_line)
        THEN Descriptor(first_line[1], first_line, UnknownDatabase, 1)
        ELSE IF startswith(second_line)
        THEN IF Len(second_line) < 2
             THEN Raised("IndexError")
             ELSE Descriptor(second_line[2], second_line, first_line, 2)
        ELSE IF startswith(third_line)
        THEN IF Len(third_line) < 2
             THEN Raised("IndexError")
             ELSE Descriptor(third_line[2], third_line, first_line, 3)
        ELSE Raised("NotImplementedError")

get_sample_name_and_column_headers(mpa_table) ==
    LET first_line  == readline(mpa_table, 1)
        second_line == readline(mpa_table, 2)
        third_line  == readline(mpa_table, 3)
        fourth_line == readline(mpa_table, 4)
    IN  IF startswith(first_line)
        THEN Descriptor(first_line[1], first_line, UnknownDatabase, 1)
        ELSE IF startswith(second_line)
        THEN IF Len(second_line) < 2
             THEN Raised("IndexError")
             ELSE Descriptor(second_line[2], third_line, first_line, 2)
        ELSE IF startswith(third_line)
        THEN IF Len(third_line) < 2
             THEN Raised("IndexError")
             ELSE Descriptor(third_line[2], fourth_line, first_line, 3)
        ELSE Raised("NotImplementedError")

----------------------------------------------------------------------------
(* pandas: read_table, set_index, rename, join, fillna *)

Range(s) == {s[i] : i \in DOMAIN s}

\* The first position of x in s.
Position(s, x) == CHOOSE i \in 1..Len(s) : s[i] = x /\ \A j \in 1..(i - 1) : s[j] # x

\* A field of a data line; pandas pads a short line with missing fields.
Field(line, p) == IF p <= Len(line) THEN line[p] ELSE ""

Table(names, columns, rows) == [names |-> names, columns |-> columns, rows |-> rows]
EmptyTable == Table(<<>>, <<>>, <<>>)
Frame(kind, table) == [kind |-> kind, table |-> table]

\* pd.read_table(mpa_table, skiprows=n): the first n lines of the file are
\* skipped, the next line is the header (header=0, the default) and the lines
\* after it are the data.
read_table(mpa_table, skiprows) ==
    LET rest == SubSeq(mpa_table.lines, skiprows + 1, Len(mpa_table.lines))
    IN  IF rest = <<>>
        THEN [kind |-> "EmptyDataError", header |-> <<>>, data |-> <<>>]
        ELSE [kind |-> "ok", header |-> Head(rest), data |-> Tail(rest)]

\* DataFrame.set_index(keys): every key must name a column of the frame; the
\* key columns become the row index, the other columns stay, in order. The
\* remaining columns hold the parsed numbers.
set_index(frame, keys) ==
    IF keys = <<>>
    THEN Frame("ValueError", EmptyTable)
    ELSE IF \E k \in DOMAIN keys : keys[k] \notin Range(frame.header)
    THEN Frame("KeyError", EmptyTable)
    ELSE LET keypos == [k \in DOMAIN keys |-> Position(frame.header, keys[k])]
             valpos == SelectSeq([p \in DOMAIN frame.header |-> p],
                                 LAMBDA p : frame.header[p] \notin Range(keys))
         IN  Frame("ok",
               Table(keys,
                     [c \in DOMAIN valpos |-> frame.header[valpos[c]]],
                     [r \in DOMAIN frame.data |->
                        [key  |-> [k \in DOMAIN keys |-> Field(frame.data[r], keypos[k])],
                         vals |-> [c \in DOMAIN valpos |->
                                     ParseFloat(Field(frame.data[r], valpos[c]))]]]))

\* rename that leaves every label as it is.
rename_nothing(table, old, new) == table

\* DataFrame.rename(columns={old: new}): a label that is not there is ignored.
rename(table, old, new) ==
    [table EXCEPT !.columns = [c \in DOMAIN table.columns |->
                                 IF table.columns[c] = old THEN new ELSE table.columns[c]]]

\* The row keys of the universe in lexicographic order, the order of an outer join's index.
KeyOrder == << <<"X">>, <<"Y">>, <<"Z">> >>

Keys(table) == {table.rows[r].key : r \in DOMAIN table.rows}

RECURSIVE Flatten(_)
Flatten(blocks) == IF blocks = <<>> THEN <<>> ELSE Head(blocks) \o Flatten(Tail(blocks))

\* The rows of table under key k; one row of missing cells when it has none.
RowsOf(table, k) ==
    LET own == SelectSeq(table.rows, LAMBDA r : r.key = k)
    IN  IF own = <<>>
        THEN << [key |-> k, vals |-> [c \in DOMAIN table.columns |-> NaN]] >>
        ELSE own

\* The keys both sides hold (an inner join).
InnerKeys(df, table) == SelectSeq(KeyOrder, LAMBDA k : k \in Keys(df) \cap Keys(table))

\* The keys of the left side alone (a left join).
LeftKeys(df, table) == SelectSeq(KeyOrder, LAMBDA k : k \in Keys(df))

\* The keys of both sides, each once, sorted.
OuterKeys(df, table) == SelectSeq(KeyOrder, LAMBDA k : k \in Keys(df) \cup Keys(table))

\* df.join(table, how="outer"): joins on the row index. Labels held by both
\* sides raise (no suffix is given). Under one key every row of the left side
\* is paired with every row of the right side.
join(df, table) ==
    IF Range(df.columns) \cap Range(table.columns) # {}
    THEN Frame("ValueError", EmptyTable)
    ELSE LET keys == OuterKeys(df, table)
             Block(k) ==
                 LET l == RowsOf(df, k)
                     r == RowsOf(table, k)
                 IN  [n \in 1..(Len(l) * Len(r)) |->
                        [key  |-> k,
                         vals |-> l[((n - 1) \div Len(r)) + 1].vals
                                  \o r[((n - 1) % Len(r)) + 1].vals]]
         IN  Frame("ok",
               Table(IF df.names = table.names THEN df.names
                     ELSE [i \in DOMAIN df.names |-> ""],
                     df.columns \o table.columns,
                     Flatten([i \in DOMAIN keys |-> Block(keys[i])])))

\* fillna that fills with 0.0 whatever value it is given.
fillna_zero(df, value) ==
    [df EXCEPT !.rows = [r \in DOMAIN df.rows |->
        [df.rows[r] EXCEPT !.vals = [c \in DOMAIN df.rows[r].vals |->
            IF df.rows[r].vals[c] = NaN THEN 0 ELSE df.rows[r].vals[c]]]]]

\* df.fillna(value): every missing cell becomes value.
DataFrame_fillna(df, value) ==
    [df EXCEPT !.rows = [r \in DOMAIN df.rows |->
        [df.rows[r] EXCEPT !.vals = [c \in DOMAIN df.rows[r].vals |->
            IF df.rows[r].vals[c] = NaN THEN value ELSE df.rows[r].vals[c]]]]]

\* Lines 81-85 of main: the SampleTable of one file, from its descriptor.
SampleTable(mpa_table, d) ==
    LET frame == read_table(mpa_table, d.variant)
        indexed == IF frame.kind # "ok" THEN Frame(frame.kind, EmptyTable)
                   ELSE set_index(frame, SubSeq(d.columns, 1, Len(d.columns) - 1))
    IN  IF indexed.kind # "ok" THEN indexed
        ELSE Frame("ok", rename(indexed.table, d.columns[Len(d.columns)], d.sample_id))

----------------------------------------------------------------------------
(* The run: __main__ and main *)

VARIABLES
    mpa_tables,               \* args.mpa_tables: the input files, in argument order
    overwrite,                \* args.force
    fillna,                   \* args.fillna, in tenths
    outfile,                  \* the output path: whether it exists, and the table it holds
    pc,                       \* where the run is
    status,                   \* "running", the exit status, or the exception that ended the run
    opened,                   \* how many times an input file was opened
    detected,                 \* the descriptors returned so far, one per loaded file
    tables,                   \* main: tables
    observed_table_variants,  \* main: variant -> the files (argument positions) of that variant
    observed_table_sizes,     \* main: number of rows -> number of tables
    observed_databases,       \* main: the database of each file
    log,                      \* what was printed or handed to logging, in order
    joined,                   \* how many tables df holds (0 before line 97)
    df                        \* main: df

vars == <<mpa_tables, overwrite, fillna, outfile, pc, status, opened, detected, tables,
          observed_table_variants, observed_table_sizes, observed_databases, log,
          joined, df>>

\* The values of --fillna a run is given: the default 0.0, and 0.5.
FillValues == {0, 5}

\* What the output path holds when it exists before the run.
OldTable == Table(<<"old">>, <<"old">>, <<>>)

Message(level, msg, args) == [level |-> level, msg |-> msg, args |-> args]

\* defaultdict(list)[k].append(x) and defaultdict(int)[k] += 1
DictAppend(d, k, x) ==
    IF k \in DOMAIN d THEN [d EXCEPT ![k] = Append(@, x)] ELSE d @@ (k :> <<x>>)
DictIncrement(d, k) ==
    IF k \in DOMAIN d THEN [d EXCEPT ![k] = @ + 1] ELSE d @@ (k :> 1)

\* The locals of main before its first statement has run.
Locals ==
    /\ pc = "start"
    /\ status = "running"
    /\ opened = 0
    /\ detected = <<>>
    /\ tables = <<>>
    /\ observed_table_variants = <<>>
    /\ observed_table_sizes = <<>>
    /\ observed_databases = <<>>
    /\ log = <<>>
    /\ joined = 0
    /\ df = EmptyTable

\* After parse_args: nargs="+" gives at least one table.
Init ==
    /\ mpa_tables \in UNION {[1..n -> FileUniverse] : n \in 1..MaxFiles}
    /\ overwrite \in BOOLEAN
    /\ fillna \in FillValues
    /\ outfile \in {[exists |-> FALSE, table |-> EmptyTable],
                    [exists |-> TRUE, table |-> OldTable]}
    /\ Locals

\* The test of line 115 with the bound one too low.
TooFew_less_than_one(args_mpa_tables) == Len(args_mpa_tables) < 1

\* Line 115: len(args.mpa_tables) < 2
TooFew(args_mpa_tables) == Len(args_mpa_tables) < 2

\* Lines 115-117: fewer than two tables.
TooFewTables ==
    /\ pc = "start"
    /\ TooFew(mpa_tables)
    /\ log' = Append(log, Message("PRINT", "Need at least two tables to merge!", <<>>))
    /\ status' = "exit(1)"
    /\ pc' = "exit"
    /\ UNCHANGED <<mpa_tables, overwrite, fillna, outfile, opened, detected, tables,
                   observed_table_variants, observed_table_sizes, observed_databases,
                   joined, df>>

\* Line 119: main is called.
CallMain ==
    /\ pc = "start"
    /\ ~TooFew(mpa_tables)
    /\ pc' = "load"
    /\ UNCHANGED <<mpa_tables, overwrite, fillna, outfile, status, opened, detected, tables,
                   observed_table_variants, observed_table_sizes, observed_databases,
                   log, joined, df>>

\* Lines 77-78: the detector raises on the next file.
DetectRaises ==
    /\ pc = "load"
    /\ Len(tables) < Len(mpa_tables)
    /\ LET i == Len(tables) + 1
           d == get_sample_name_and_column_headers(mpa_tables[i])
       IN  /\ d.kind # "ok"
           /\ opened' = opened + 1
           /\ status' = d.kind
           /\ pc' = "exit"
    /\ UNCHANGED <<mpa_tables, overwrite, fillna, outfile, detected, tables,
                   observed_table_variants, observed_table_sizes, observed_databases,
                   log, joined, df>>

\* Lines 77-85: the next file is detected, and pandas raises while loading it.
ReadRaises ==
    /\ pc = "load"
    /\ Len(tables) < Len(mpa_tables)
    /\ LET i == Len(tables) + 1
           d == get_sample_name_and_column_headers(mpa_tables[i])
           t == SampleTable(mpa_tables[i], d)
       IN  /\ d.kind = "ok"
           /\ t.kind # "ok"
           /\ opened' = opened + 2
           /\ detected' = Append(detected, d)
           /\ observed_table_variants' = DictAppend(observed_table_variants, d.variant, i)
           /\ observed_databases' = Append(observed_databases, d.db)
           /\ status' = t.kind
           /\ pc' = "exit"
    /\ UNCHANGED <<mpa_tables, overwrite, fillna, outfile, tables, observed_table_sizes,
                   log, joined, df>>

\* Lines 77-86: one turn of the loop over mpa_tables.
LoadTable ==
    /\ pc = "load"
    /\ Len(tables) < Len(mpa_tables)
    /\ LET i == Len(tables) + 1
           d == get_sample_name_and_column_headers(mpa_tables[i])
           t == SampleTable(mpa_tables[i], d)
       IN  /\ d.kind = "ok"
           /\ t.kind = "ok"
           /\ opened' = opened + 2
           /\ detected' = Append(detected, d)
           /\ observed_table_variants' = DictAppend(observed_table_variants, d.variant, i)
           /\ observed_databases' = Append(observed_databases, d.db)
           /\ tables' = Append(tables, t.table)
           /\ observed_table_sizes' = DictIncrement(observed_table_sizes, Len(t.table.rows))
    /\ UNCHANGED <<mpa_tables, overwrite, fillna, outfile, pc, status, log, joined, df>>

\* The warning of lines 90-91 given as soon as one variant was observed.
VariantMessages_any(variants) ==
    IF Cardinality(DOMAIN variants) > 0
    THEN << Message("WARNING", "More than one table variant observed: %s.", variants) >>
    ELSE <<>>

\* Lines 90-91: the warning of more than one variant, when it is due.
VariantMessages(variants) ==
    IF Cardinality(DOMAIN variants) > 1
    THEN << Message("WARNING", "More than one table variant observed: %s.", variants) >>
    ELSE <<>>

\* The test of line 92 on the list of databases instead of the set.
DatabaseMessages_no_set(databases) ==
    IF Len(databases) = 1
    THEN << Message("DEBUG", "All tables used the same db: %s", databases[1]) >>
    ELSE << Message("WARNING",
                    "Joined tables appears to have used different databases: %s",
                    databases) >>

\* Lines 92-95: the one database, or the warning of different ones.
DatabaseMessages(databases) ==
    IF Cardinality(Range(databases)) = 1
    THEN << Message("DEBUG", "All tables used the same db: %s", databases[1]) >>
    ELSE << Message("WARNING",
                    "Joined tables appears to have used different databases: %s",
                    databases) >>

\* Lines 88-95: every table is loaded; the summary is logged.
Report ==
    /\ pc = "load"
    /\ Len(tables) = Len(mpa_tables)
    /\ log' = log
              \o << Message("DEBUG", "Loaded %s tables to join.", Len(tables)),
                    Message("DEBUG", "Observed table sizes: %s.", observed_table_sizes) >>
              \o VariantMessages(observed_table_variants)
              \o DatabaseMessages(observed_databases)
    /\ pc' = "join"
    /\ UNCHANGED <<mpa_tables, overwrite, fillna, outfile, status, opened, detected, tables,
                   observed_table_variants, observed_table_sizes, observed_databases,
                   joined, df>>

\* Line 97: df = tables[0]
JoinFirst ==
    /\ pc = "join"
    /\ joined = 0
    /\ df' = tables[1]
    /\ joined' = 1
    /\ UNCHANGED <<mpa_tables, overwrite, fillna, outfile, pc, status, opened, detected,
                   tables, observed_table_variants, observed_table_sizes,
                   observed_databases, log>>

\* Lines 98-99: one turn of the loop over tables[1:].
JoinNext ==
    /\ pc = "join"
    /\ joined >= 1
    /\ joined < Len(tables)
    /\ LET r == join(df, tables[joined + 1])
       IN  /\ r.kind = "ok"
           /\ df' = r.table
           /\ joined' = joined + 1
    /\ UNCHANGED <<mpa_tables, overwrite, fillna, outfile, pc, status, opened, detected,
                   tables, observed_table_variants, observed_table_sizes,
                   observed_databases, log>>

\* Line 99: the join raises.
JoinRaises ==
    /\ pc = "join"
    /\ joined >= 1
    /\ joined < Len(tables)
    /\ LET r == join(df, tables[joined + 1])
       IN  /\ r.kind # "ok"
           /\ status' = r.kind
           /\ pc' = "exit"
    /\ UNCHANGED <<mpa_tables, overwrite, fillna, outfile, opened, detected, tables,
                   observed_table_variants, observed_table_sizes, observed_databases,
                   log, joined, df>>

\* Lines 100-101: the missing cells are filled.
FillNa ==
    /\ pc = "join"
    /\ joined = Len(tables)
    /\ df' = DataFrame_fillna(df, fillna)
    /\ log' = Append(log, Message("DEBUG", "Output table has %s rows.", Len(df.rows)))
    /\ pc' = "check"
    /\ UNCHANGED <<mpa_tables, overwrite, fillna, outfile, status, opened, detected, tables,
                   observed_table_variants, observed_table_sizes, observed_databases,
                   joined>>

\* The test of line 103 without its "not".
Refused_without_not(path, force) == path.exists /\ force

\* Line 103: Path(outfile).exists() and not overwrite
Refused(path, force) == path.exists /\ ~force

\* Lines 103-105: the output path exists and --force is not set.
OutputExists ==
    /\ pc = "check"
    /\ Refused(outfile, overwrite)
    /\ log' = Append(log, Message("ERROR",
                "Output file '%s' already exists and --force is not set.", <<>>))
    /\ status' = "exit(2)"
    /\ pc' = "exit"
    /\ UNCHANGED <<mpa_tables, overwrite, fillna, outfile, opened, detected, tables,
                   observed_table_variants, observed_table_sizes, observed_databases,
                   joined, df>>

\* Line 106: df.to_csv(outfile, sep="\t"), and the run ends.
WriteOutput ==
    /\ pc = "check"
    /\ ~Refused(outfile, overwrite)
    /\ outfile' = [exists |-> TRUE, table |-> df]
    /\ status' = "exit(0)"
    /\ pc' = "exit"
    /\ UNCHANGED <<mpa_tables, overwrite, fillna, opened, detected, tables,
                   observed_table_variants, observed_table_sizes, observed_databases,
                   log, joined, df>>

Next ==
    \/ TooFewTables
    \/ CallMain
    \/ DetectRaises
    \/ ReadRaises
    \/ LoadTable
    \/ Report
    \/ JoinFirst
    \/ JoinNext
    \/ JoinRaises
    \/ FillNa
    \/ OutputExists
    \/ WriteOutput

Spec == Init /\ [][Next]_vars

----------------------------------------------------------------------------
(* The detector alone, on every four lines of LineUniverse *)

InitDetect ==
    /\ mpa_tables \in {<<RawFile(l1, l2, l3, l4, l5)>> :
                         l1 \in LineUniverse, l2 \in LineUniverse, l3 \in LineUniverse,
                         l4 \in LineUniverse, l5 \in {<<>>, MarkerLine("S1")}}
    /\ overwrite = FALSE
    /\ fillna = 0
    /\ outfile = [exists |-> FALSE, table |-> EmptyTable]
    /\ Locals

\* Lines 42-68: one call of the detector.
Detect ==
    /\ pc = "start"
    /\ opened' = opened + 1
    /\ detected' = Append(detected, get_sample_name_and_column_headers(mpa_tables[1]))
    /\ pc' = "exit"
    /\ UNCHANGED <<mpa_tables, overwrite, fillna, outfile, status, tables,
                   observed_table_variants, observed_table_sizes, observed_databases,
                   log, joined, df>>

NextDetect == Detect

SpecDetect == InitDetect /\ [][NextDetect]_vars

----------------------------------------------------------------------------
(* Properties *)

NumFiles == Len(mpa_tables)
LineAt(f, k) == IF k <= Len(f.lines) THEN f.lines[k] ELSE <<>>
BeginsWithMarker(line) == Len(line) > 0 /\ line[1] \in {"#SampleID", "#SampleIDs"}
InitialOutfiles == {[exists |-> FALSE, table |-> EmptyTable],
                    [exists |-> TRUE, table |-> OldTable]}

\* What the ordered test of the first four lines gives for file f; a
\* "#SampleID" line on line 2 or 3 that has no second token gives noSample.
ExpectedDescriptor(f, d, noSample) ==
    LET l1 == LineAt(f, 1)
        l2 == LineAt(f, 2)
        l3 == LineAt(f, 3)
        l4 == LineAt(f, 4)
    IN  IF BeginsWithMarker(l1)
        THEN d.kind = "ok" /\ d.variant = 1 /\ d.sample_id = l1[1] /\ d.columns = l1
        ELSE IF BeginsWithMarker(l2)
        THEN IF Len(l2) >= 2
             THEN /\ d.kind = "ok" /\ d.variant = 2 /\ d.db = l1
                  /\ d.sample_id = l2[2] /\ d.columns = l3
             ELSE noSample
        ELSE IF BeginsWithMarker(l3)
        THEN IF Len(l3) >= 2
             THEN /\ d.kind = "ok" /\ d.variant = 3 /\ d.db = l1
                  /\ d.sample_id = l3[2] /\ d.columns = l4
             ELSE noSample
        ELSE d.kind = "NotImplementedError"

C6_NoWriteOnFatal ==
    [][ outfile' # outfile =>
          /\ \A i \in 1..NumFiles :
                 LET l == mpa_tables[i].lines
                 IN  \E k \in 1..3 : /\ k <= Len(l)
                                     /\ BeginsWithMarker(l[k])
                                     /\ (k > 1 => Len(l[k]) >= 2)
          /\ Len(detected) = NumFiles
          /\ Len(tables) = NumFiles
          /\ joined = NumFiles
          /\ pc = "check"
          /\ ~(outfile.exists /\ ~overwrite)
          /\ outfile'.table = df
          /\ status' = "exit(0)" ]_vars

\* The run ended on an existing output path without --force, after a join of
\* three files, and the path holds what it held before.
C6_Witness ==
    /\ pc = "exit"
    /\ status = "exit(2)"
    /\ ~overwrite
    /\ joined = 3
    /\ outfile = [exists |-> TRUE, table |-> OldTable]

\* C7: with fewer than two input files the run ends with the message "Need at
\* least two tables to merge!" and exit status 1, no input file is ever
\* opened and the output path is left as it was; detection, loading, joining
\* and writing are reached only with two files or more.
C7_TooFewFiles ==
    /\ NumFiles < 2 =>
          /\ pc \in {"start", "exit"}
          /\ opened = 0
          /\ detected = <<>> /\ tables = <<>> /\ joined = 0
          /\ outfile \in InitialOutfiles
          /\ pc = "exit" =>
                /\ status = "exit(1)"
                /\ log = << Message("PRINT", "Need at least two tables to merge!", <<>>) >>
    /\ (pc \notin {"start", "exit"} \/ opened > 0 \/ outfile \notin InitialOutfiles)
          => NumFiles >= 2

\* One file was given and the run has ended.
C7_Witness ==
    /\ NumFiles = 1
    /\ pc = "exit"
    /\ status = "exit(1)"
    /\ opened = 0

----------------------------------------------------------------------------
(* The merged table against the taxon rows the input files were written from *)

TruthKeys(f) == {<<f.rows[i].taxon>> : i \in DOMAIN f.rows}
TruthRowsAt(f, k) == {i \in DOMAIN f.rows : <<f.rows[i].taxon>> = k}
TruthValues(f, k) == {f.rows[i].value : i \in TruthRowsAt(f, k)}
AllTruthKeys == UNION {TruthKeys(mpa_tables[i]) : i \in 1..NumFiles}
IndexOf(t) == {t.rows[r].key : r \in DOMAIN t.rows}
RowCount(t, k) == Cardinality({r \in DOMAIN t.rows : t.rows[r].key = k})
Pairwise(seq) == \A i, j \in DOMAIN seq : i # j => seq[i] # seq[j]
Ids == [i \in 1..Len(detected) |-> detected[i].sample_id]

\* Every table is loaded; the join of all of them is done; the fill is done too.
AllLoaded == NumFiles >= 2 /\ Len(tables) = NumFiles
Merged == NumFiles >= 2 /\ joined = NumFiles
Filled == Merged /\ pc # "join"

\* The number of rows key k must have: the product, over the first i files,
\* of the number of times the file holds k (1 when it does not hold it).
RECURSIVE Multiplicity(_, _)
Multiplicity(k, i) ==
    IF i = 0 THEN 1
    ELSE LET c == Cardinality(TruthRowsAt(mpa_tables[i], k))
         IN  (IF c = 0 THEN 1 ELSE c) * Multiplicity(k, i - 1)

C3_CellValues ==
    Filled =>
      /\ \A r \in DOMAIN df.rows :
            /\ Len(df.rows[r].vals) = NumFiles
            /\ \A c \in 1..NumFiles :
                  LET held == TruthValues(mpa_tables[c], df.rows[r].key)
                  IN  /\ df.rows[r].vals[c] # NaN
                      /\ IF held # {} THEN df.rows[r].vals[c] \in held
                                      ELSE df.rows[r].vals[c] = fillna
      /\ \A k \in AllTruthKeys : \A c \in 1..NumFiles :
            LET held == TruthValues(mpa_tables[c], k)
            IN  \A v \in (IF held # {} THEN held ELSE {fillna}) :
                    \E r \in DOMAIN df.rows : /\ df.rows[r].key = k
                                              /\ df.rows[r].vals[c] = v

\* A written table, filled with 0.5, with a filled cell and a cell of a file's value 3.0.
C3_Witness ==
    /\ status = "exit(0)"
    /\ fillna = 5
    /\ \E r \in DOMAIN df.rows : \E c, e \in 1..NumFiles :
          /\ df.rows[r].vals[c] = 5
          /\ df.rows[r].vals[e] = 30

----------------------------------------------------------------------------
(* The merge of the same tables in another order *)

RECURSIVE FoldJoin(_, _)
FoldJoin(acc, rest) ==
    IF rest = <<>> THEN Frame("ok", acc)
    ELSE LET r == join(acc, Head(rest))
         IN  IF r.kind # "ok" THEN r ELSE FoldJoin(r.table, Tail(rest))

\* Lines 97-100 on the tables ts.
MergeOf(ts, value) ==
    LET r == FoldJoin(Head(ts), Tail(ts))
    IN  IF r.kind # "ok" THEN r ELSE Frame("ok", DataFrame_fillna(r.table, value))

\* A row as its key and its cells by column label.
RowCells(t, r) ==
    [key |-> t.rows[r].key,
     cells |-> {<<t.columns[c], t.rows[r].vals[c]>> : c \in DOMAIN t.columns}]
RowSet(t) == {RowCells(t, r) : r \in DOMAIN t.rows}
Copies(t, e) == Cardinality({r \in DOMAIN t.rows : RowCells(t, r) = e})
SameContent(a, b) ==
    /\ RowSet(a) = RowSet(b)
    /\ \A e \in RowSet(a) : Copies(a, e) = Copies(b, e)

\* C5: a run that loaded all its files ends with a merged table exactly when
\* the merge of the same tables in any other order does, and then the two
\* merged tables hold the same taxon keys and, under every key and sample
\* label, the same cells (the same rows, as many times); only the order of
\* the sample columns follows the order of the files.
C5_OrderIndependent ==
    (pc = "exit" /\ AllLoaded) =>
        \A p \in Permutations(1..NumFiles) :
            LET m == MergeOf([i \in 1..NumFiles |-> tables[p[i]]], fillna)
            IN  IF Filled
                THEN /\ m.kind = "ok"
                     /\ SameContent(m.table, df)
                     /\ m.table.columns = [i \in 1..NumFiles |-> df.columns[p[i]]]
                ELSE m.kind # "ok"

\* A written table of three files that do not all hold the same keys, one
\* of them with a repeated key.
C5_Witness ==
    /\ status = "exit(0)"
    /\ NumFiles = 3
    /\ IndexOf(tables[1]) # IndexOf(tables[2])
    /\ IndexOf(tables[2]) # IndexOf(tables[3])
    /\ \E k \in IndexOf(tables[3]) : RowCount(tables[3], k) = 2
    /\ \E r \in DOMAIN df.rows : df.rows[r].vals[1] = fillna

----------------------------------------------------------------------------
(* The warnings *)

\* The summary of lines 88-95 was logged.
Reported == AllLoaded /\ pc # "load"

TrueVariant(f) ==
    CASE f.layout \in {"v1", "v1h"} -> 1
      [] f.layout = "v2" -> 2
      [] f.layout = "v3" -> 3
      [] OTHER -> 0
TrueDatabase(f) == IF TrueVariant(f) = 1 THEN <<"#Unknown", "database">> ELSE f.db

Logged(level, msg) == SelectSeq(log, LAMBDA e : e.level = level /\ e.msg = msg)
VariantWarnings == Logged("WARNING", "More than one table variant observed: %s.")
DatabaseWarnings ==
    Logged("WARNING", "Joined tables appears to have used different databases: %s")
DatabaseDebugs == Logged("DEBUG", "All tables used the same db: %s")

\* A run that logged its summary ends for one of three reasons only: the output
\* was written, the output path was refused, or the join raised on sample
\* identifiers held twice.
EndsAfterReportAsWithout ==
    (Reported /\ pc = "exit") =>
        /\ status \in {"exit(0)", "exit(2)", "ValueError"}
        /\ status = "exit(0)" => (Filled /\ outfile = [exists |-> TRUE, table |-> df])
        /\ status = "exit(2)" => (Filled /\ ~overwrite /\ outfile.exists)
        /\ status = "ValueError" => ~Pairwise(Ids)
        /\ Pairwise(Ids) => status # "ValueError"

----------------------------------------------------------------------------
(* Loading *)

\* The table a file's taxon rows make: one row per taxon row, in order,
\* keyed by the taxon, holding the abundance.
TruthRows(f) == [i \in DOMAIN f.rows |-> [key |-> <<f.rows[i].taxon>>,
                                          vals |-> <<f.rows[i].value>>]]

\* C10: for every file of layout 1, 2 or 3 that was detected, skipping as
\* many lines as its variant leaves the data rows: the file is loaded, its
\* table is indexed by the detected column headers but the last and holds
\* exactly the file's taxon rows (no header or metadata line is a row, no
\* taxon row is lost or taken as the header).
C10_SkipVariantLines ==
    \A i \in 1..Len(detected) :
        mpa_tables[i].layout \in {"v1", "v2", "v3"} =>
            /\ i <= Len(tables)
            /\ tables[i].rows = TruthRows(mpa_tables[i])
            /\ tables[i].names =
                   SubSeq(detected[i].columns, 1, Len(detected[i].columns) - 1)

\* The same for layouts 2 and 3 alone.
LoadsLayouts2And3 ==
    \A i \in 1..Len(detected) :
        mpa_tables[i].layout \in {"v2", "v3"} =>
            /\ i <= Len(tables)
            /\ tables[i].rows = TruthRows(mpa_tables[i])
            /\ tables[i].names =
                   SubSeq(detected[i].columns, 1, Len(detected[i].columns) - 1)

====
